---- MODULE Spec2Model ----
(***************************************************************************)
(* One SOCKS5 session of socksio (src/socksio/server.py, auth.py): the     *)
(* Socks5 protocol object, its serve_connection task, the exchange-loop    *)
(* worker, the RemoteConnection protocol of the outbound connection, and   *)
(* the event loop's FIFO queue of ready callbacks that runs them.          *)
(*                                                                         *)
(* A coroutine runs without interruption from one suspending await to the  *)
(* next: `running` names the coroutine that holds the loop, and every      *)
(* other callback waits in `ready`.  A read() whose data is already        *)
(* buffered does not suspend.  Bytes are naturals; the client's and the    *)
(* upstream's traffic are byte sequences delivered in arbitrary chunks.    *)
(***************************************************************************)
EXTENDS Integers, Sequences, FiniteSets, TLC

VARIABLES
    auth_handlers,  \* Socks5._auth_handlers: the configured method ids
    backendOk,      \* the verdict auth_backend.verify_credentials would give
    script,         \* the messages the client sends in this session
    toSend,         \* client bytes not yet received by the server
    upToSend,       \* upstream bytes not yet received by the server
    buffer,         \* StreamReader buffer of the client stream
    eof,            \* StreamReader end-of-stream flag
    waiter,         \* the coroutine suspended in StreamReader.read
    closing,        \* client transport: close() called or connection lost
    close_event,    \* Socks5._close_event
    clientOut,      \* bytes the client transport accepted for the client
    remote,         \* Socks5._remote: "None" or "transport"
    remote_transport, \* outbound transport: "none", "open", "closing"
                    \* (close() called or connection lost), "closed" (its
                    \* connection_lost callback has run)
    upOut,          \* bytes the outbound transport accepted for the upstream
    pc,             \* position of serve_connection, or how it ended
    running,        \* the coroutine executing now
    ready,          \* the event loop's queue of ready callbacks
    loc,            \* local values of serve_connection's callees
    worker,         \* Socks5._worker, the exchange-loop task
    must_cancel,    \* cancel() was called on the worker
    logged,         \* number of exceptions the exchange loop caught and logged
    dial,           \* the create_connection call of _connect
    dials,          \* number of create_connection calls
    bound,          \* sockname of the outbound connection
    replyAt,        \* index in clientOut where the CONNECT reply starts
    negotiated,     \* number of negotiate() calls on an auth handler
    closed_by       \* who closed the client transport first

vars == <<auth_handlers, backendOk, script, toSend, upToSend, buffer, eof,
          waiter, closing, close_event, clientOut, remote, remote_transport,
          upOut, pc, running,
          ready, loc, worker, must_cancel, logged, dial, dials, bound,
          replyAt, negotiated, closed_by>>

-----------------------------------------------------------------------------
\* Bounds of the model.

\* Longest chunk one data_received call delivers, unless it delivers all
\* the bytes in flight at once.
MaxChunk == 2

-----------------------------------------------------------------------------
\* Program constants.

VERSION == 5
SUCCESS == 0
FAIL == 1
WithoutAuthMETHOD == 0
UsernamePasswordMETHOD == 1
COMMAND_NOT_SUPPORTED == 7
GENERAL_SOCKS_SERVER_FAILURE == 1
CONNECT == 1
BIND == 2
UDP_ASSOCIATE == 3
IPV4 == 1
DOMAINNAME == 3
IPV6 == 4
ReadChunk == 2048

-----------------------------------------------------------------------------
\* Python values and the conversions the code applies to them.

Min(a, b) == IF a < b THEN a ELSE b

IsPrefix(s, t) == Len(s) <= Len(t) /\ SubSeq(t, 1, Len(s)) = s

Drop(s, n) == SubSeq(s, n + 1, Len(s))

\* An int, and the tuple struct.unpack returns.
PyInt(n) == [t |-> "int", v |-> n]
PyTuple(s) == [t |-> "tuple", v |-> s]

\* struct.pack('!H', n) and struct.unpack('!H', b)[0]: big-endian 16 bits.
PackH(n) == <<(n \div 256) % 256, n % 256>>
UnpackH(b) == b[1] * 256 + b[2]

\* socket.inet_ntoa: 4 packed bytes to the dotted-quad text, held as its
\* four decimal fields; socket.inet_aton is the way back.
inet_ntoa(b) == [o1 |-> b[1], o2 |-> b[2], o3 |-> b[3], o4 |-> b[4]]
inet_aton(a) == <<a.o1, a.o2, a.o3, a.o4>>

\* '!{}s'.format(n): a struct format only when n is an int.
FormatS(n) == IF n.t = "int" THEN [ok |-> TRUE, size |-> n.v]
              ELSE [ok |-> FALSE, size |-> 0]

-----------------------------------------------------------------------------
\* The traffic of a session.

MethodLists == {<<>>, <<0>>, <<1>>, <<2>>, <<0, 1>>}

Greetings == {<<v, Len(ms)>> \o ms : v \in {4, VERSION}, ms \in MethodLists}

\* VER ULEN UNAME PLEN PASSWD: none sent, a well-formed message, and one
\* with an empty user name.
Credentials == {<<>>, <<1, 1, 7, 1, 8>>, <<1, 0, 1, 8>>}

Port80 == <<0, 80>>

\* DST.ADDR as the client encodes it: IPv4, a domain name, IPv6.
\* Requests carry CONNECT to each of them, or BIND or UDP ASSOCIATE.
Destinations ==
    { [atyp |-> IPV4, addr |-> <<127, 0, 0, 1>>],
      [atyp |-> DOMAINNAME, addr |-> <<1, 97>>],
      [atyp |-> IPV6, addr |-> <<0, 0, 0, 0, 0, 0, 0, 0, 0, 0, 0, 0, 0, 0, 0, 1>>] }

Requests ==
    { <<VERSION, CONNECT, 0, d.atyp>> \o d.addr \o Port80 : d \in Destinations }
    \cup { <<VERSION, c, 0, IPV4>> \o <<127, 0, 0, 1>> \o Port80 :
             c \in {BIND, UDP_ASSOCIATE} }

Payloads == {<<>>, <<11, 12, 13>>}

UpstreamBytes == <<21, 22>>

\* Local endpoints the outbound socket may get.
SockNames == { [addr |-> inet_ntoa(<<127, 0, 0, 1>>), port |-> 80],
               [addr |-> inet_ntoa(<<10, 0, 0, 2>>), port |-> 513] }

Scripts ==
    { [greeting |-> g, creds |-> c, request |-> r, payload |-> p] :
        g \in Greetings, c \in Credentials, r \in Requests, p \in Payloads }

HandlerSets == { {WithoutAuthMETHOD}, {UsernamePasswordMETHOD},
                 {WithoutAuthMETHOD, UsernamePasswordMETHOD} }

NoLoc == [version |-> -1, nmethods |-> 0, method |-> -1, ulen |-> 0,
          username |-> PyTuple(<<>>), plen |-> PyTuple(<<>>),
          password |-> PyTuple(<<>>), cmd |-> -1, atyp |-> 0,
          remote_addr |-> inet_ntoa(<<0, 0, 0, 0>>), remote_port |-> 0]

-----------------------------------------------------------------------------
\* Socks5.__init__ and connection_made: the task is scheduled, nothing read.

Init ==
    /\ auth_handlers \in HandlerSets
    /\ script \in Scripts
    /\ backendOk \in (IF script.creds = <<>> THEN {FALSE} ELSE BOOLEAN)
    /\ (script.creds # <<>> => script.greeting[2] > 0)
    /\ toSend = script.greeting \o script.creds \o script.request \o script.payload
    /\ upToSend = UpstreamBytes
    /\ buffer = <<>>
    /\ eof = FALSE
    /\ waiter = "none"
    /\ closing = FALSE
    /\ close_event = FALSE
    /\ clientOut = <<>>
    /\ remote = "None"
    /\ remote_transport = "none"
    /\ upOut = <<>>
    /\ pc = "greeting"
    /\ running = "none"
    /\ ready = <<[ev |-> "task"]>>
    /\ loc = NoLoc
    /\ worker = "none"
    /\ must_cancel = FALSE
    /\ logged = 0
    /\ dial = "none"
    /\ dials = 0
    /\ bound = [addr |-> inet_ntoa(<<0, 0, 0, 0>>), port |-> 0]
    /\ replyAt = 0
    /\ negotiated = 0
    /\ closed_by = "none"

-----------------------------------------------------------------------------
\* The transports and the stream reader (asyncio), as the code uses them.

\* transport.write(data): a transport that is closing drops the data.
TransportWrite(out, isClosing, data) == IF isClosing THEN out ELSE out \o data

\* transport.close() of the client transport: connection_lost is called soon.
TransportClose(q) == IF closing THEN q ELSE Append(q, [ev |-> "connection_lost"])

\* Who closes the client transport, if this step is the first to close it.
ClosedBy(who) == IF ~closing /\ closing' THEN who ELSE closed_by

\* StreamReader.read(n) returns at once when n = 0, data is buffered or the
\* stream is at end-of-stream; otherwise the caller is suspended.
CanRead(n) == n = 0 \/ buffer # <<>> \/ eof

\* The bytes StreamReader.read(n) returns: at most n, fewer if fewer are
\* buffered, none at end-of-stream.
ReadData(n) == SubSeq(buffer, 1, Min(n, Len(buffer)))

\* StreamReader._wakeup_waiter: the suspended coroutine is made ready.
Wakeup(q) == IF waiter = "none" THEN q ELSE Append(q, [ev |-> waiter])

Range(s) == {s[i] : i \in 1..Len(s)}

Pending(kinds) == \E i \in 1..Len(ready) : ready[i].ev \in kinds

\* The client transport after its connection_lost callback has run.
ClientClosed == closing /\ ~Pending({"connection_lost"})

\* Whether transport.write raises: never on an open or closing transport;
\* on a closed one the stock asyncio transport drops the data silently and
\* the uvloop transport raises RuntimeError.
WriteRaises(isClosed) == IF isClosed THEN BOOLEAN ELSE {FALSE}

ClientEvents == {"data_received", "eof_received", "client_lost"}
RemoteEvents == {"dial_done", "remote_data", "remote_eof"}

\* The sizes of the next chunk of the bytes s in flight: up to MaxChunk
\* bytes, or all the bytes up to the end of one of the client's messages.
MessageEnds == {0, Len(script.payload), Len(script.request \o script.payload),
                Len(script.creds \o script.request \o script.payload)}
ChunkSizes(s) == {k \in 1..Len(s) : k <= MaxChunk \/ Len(s) - k \in MessageEnds}

cfgVars == <<auth_handlers, backendOk, script>>
readerVars == <<buffer, eof, waiter>>
remoteVars == <<remote, remote_transport, upOut, upToSend>>
dialVars == <<dial, dials, bound>>
workerVars == <<worker, must_cancel, logged>>

-----------------------------------------------------------------------------
\* The selector: I/O on the two sockets becomes a ready callback.  One
\* callback per socket is queued at a time.

SelectClient ==
    /\ running = "none"
    /\ ~closing
    /\ ~Pending(ClientEvents)
    /\ \/ /\ toSend # <<>>
          /\ ~eof
          /\ \E k \in ChunkSizes(toSend) :
                ready' = Append(ready, [ev |-> "data_received", n |-> k])
       \/ /\ ~eof
          /\ ready' = Append(ready, [ev |-> "eof_received"])
       \/ ready' = Append(ready, [ev |-> "client_lost"])
    /\ UNCHANGED <<cfgVars, toSend, readerVars, closing, close_event,
                   clientOut, remoteVars, pc, running, loc, workerVars,
                   dialVars, replyAt, negotiated,
                   closed_by>>

SelectRemote ==
    /\ running = "none"
    /\ ~Pending(RemoteEvents)
    /\ \/ /\ dial = "pending"
          /\ \/ \E s \in SockNames :
                  ready' = Append(ready, [ev |-> "dial_done", ok |-> TRUE,
                                          sock |-> s])
             \/ ready' = Append(ready, [ev |-> "dial_done", ok |-> FALSE,
                                        sock |-> bound])
       \/ /\ remote_transport = "open"
          /\ upToSend # <<>>
          /\ \E k \in 1..Len(upToSend) :
                ready' = Append(ready, [ev |-> "remote_data", n |-> k])
       \/ /\ remote_transport = "open"
          /\ ready' = Append(ready, [ev |-> "remote_eof"])
    /\ UNCHANGED <<cfgVars, toSend, readerVars, closing, close_event,
                   clientOut, remoteVars, pc, running, loc, workerVars,
                   dialVars, replyAt, negotiated,
                   closed_by>>

-----------------------------------------------------------------------------
\* Callbacks of the client transport on the Socks5 protocol.

\* StreamReaderProtocol.data_received: feed_data.
DataReceived ==
    /\ running = "none" /\ ready # <<>> /\ Head(ready).ev = "data_received"
    /\ IF closing
       THEN /\ ready' = Tail(ready)
            /\ UNCHANGED <<toSend, readerVars>>
       ELSE /\ buffer' = buffer \o SubSeq(toSend, 1, Head(ready).n)
            /\ toSend' = Drop(toSend, Head(ready).n)
            /\ ready' = Wakeup(Tail(ready))
            /\ waiter' = "none"
            /\ UNCHANGED eof
    /\ UNCHANGED <<cfgVars, closing, close_event, clientOut, remoteVars, pc,
                   running, loc, workerVars, dialVars, replyAt, negotiated,
                   closed_by>>

\* StreamReaderProtocol.eof_received: feed_eof; the transport stays open.
EofReceived ==
    /\ running = "none" /\ ready # <<>> /\ Head(ready).ev = "eof_received"
    /\ IF closing
       THEN /\ ready' = Tail(ready)
            /\ UNCHANGED <<toSend, readerVars>>
       ELSE /\ eof' = TRUE
            /\ toSend' = <<>>
            /\ ready' = Wakeup(Tail(ready))
            /\ waiter' = "none"
            /\ UNCHANGED buffer
    /\ UNCHANGED <<cfgVars, closing, close_event, clientOut, remoteVars, pc,
                   running, loc, workerVars, dialVars, replyAt, negotiated,
                   closed_by>>

\* The client connection breaks: the transport closes itself and calls
\* connection_lost soon.
ClientLost ==
    /\ running = "none" /\ ready # <<>> /\ Head(ready).ev = "client_lost"
    /\ closing' = TRUE
    /\ ready' = TransportClose(Tail(ready))
    /\ UNCHANGED <<cfgVars, toSend, readerVars, close_event, clientOut,
                   remoteVars, pc, running, loc, workerVars, dialVars,
                   replyAt, negotiated>>
    /\ closed_by' = ClosedBy("peer")

\* Socks5.connection_lost
Socks5ConnectionLost ==
    /\ running = "none" /\ ready # <<>> /\ Head(ready).ev = "connection_lost"
    /\ close_event' = TRUE
    /\ LET cancelling == worker = "pending"
           wake == cancelling /\ waiter = "worker"
           q1 == IF wake THEN Append(Tail(ready), [ev |-> "worker"])
                 ELSE Tail(ready)
           closeRemote == remote = "transport" /\ remote_transport = "open"
       IN  /\ must_cancel' = (must_cancel \/ cancelling)
           /\ waiter' = IF wake THEN "none" ELSE waiter
           /\ remote_transport' = IF closeRemote THEN "closing"
                                  ELSE remote_transport
           /\ ready' = IF closeRemote
                       THEN Append(q1, [ev |-> "remote_connection_lost"])
                       ELSE q1
    /\ UNCHANGED <<cfgVars, toSend, buffer, eof, closing, clientOut, remote,
                   upOut, upToSend, pc, running, loc, worker, logged, dialVars,
                   replyAt, negotiated,
                   closed_by>>

-----------------------------------------------------------------------------
\* Callbacks of the outbound transport on the RemoteConnection protocol.

\* The outbound connect ends: on success the transport exists and
\* RemoteConnection.connection_made has run; the task waiting in
\* create_connection is made ready either way.
DialDone ==
    /\ running = "none" /\ ready # <<>> /\ Head(ready).ev = "dial_done"
    /\ dial' = IF Head(ready).ok THEN "ok" ELSE "failed"
    /\ bound' = Head(ready).sock
    /\ remote_transport' = IF Head(ready).ok THEN "open" ELSE remote_transport
    /\ ready' = Append(Tail(ready), [ev |-> "task"])
    /\ UNCHANGED <<cfgVars, toSend, readerVars, closing, close_event,
                   clientOut, remote, upOut, upToSend, pc, running, loc,
                   workerVars, dials, replyAt, negotiated,
                   closed_by>>

\* The transport RemoteConnection.data_received writes to (line 50).
DataReceivedTargetOwn == "transport"
DataReceivedTarget == "proxy_transport"

\* RemoteConnection.data_received.  An exception raised by the write leaves
\* the callback, and the loop force-closes the outbound transport.
RemoteDataReceived ==
    /\ running = "none" /\ ready # <<>> /\ Head(ready).ev = "remote_data"
    /\ IF remote_transport # "open"
       THEN /\ ready' = Tail(ready)
            /\ UNCHANGED <<clientOut, upOut, upToSend, remote_transport>>
       ELSE LET data == SubSeq(upToSend, 1, Head(ready).n) IN
            /\ upToSend' = Drop(upToSend, Head(ready).n)
            /\ IF DataReceivedTarget = "proxy_transport"
               THEN \E raises \in WriteRaises(ClientClosed) :
                    IF raises
                    THEN /\ remote_transport' = "closing"
                         /\ ready' = Append(Tail(ready),
                                            [ev |-> "remote_connection_lost"])
                         /\ UNCHANGED <<clientOut, upOut>>
                    ELSE /\ clientOut' = TransportWrite(clientOut, closing,
                                                        data)
                         /\ ready' = Tail(ready)
                         /\ UNCHANGED <<upOut, remote_transport>>
               ELSE /\ upOut' = TransportWrite(upOut, FALSE, data)
                    /\ ready' = Tail(ready)
                    /\ UNCHANGED <<clientOut, remote_transport>>
    /\ UNCHANGED <<cfgVars, toSend, readerVars, closing, close_event, remote,
                   pc, running, loc, workerVars, dialVars, replyAt,
                   negotiated, closed_by>>

\* The upstream ends or breaks the connection: the outbound transport
\* closes itself and calls RemoteConnection.connection_lost soon.
RemoteEof ==
    /\ running = "none" /\ ready # <<>> /\ Head(ready).ev = "remote_eof"
    /\ IF remote_transport = "open"
       THEN /\ remote_transport' = "closing"
            /\ ready' = Append(Tail(ready), [ev |-> "remote_connection_lost"])
       ELSE /\ ready' = Tail(ready)
            /\ UNCHANGED remote_transport
    /\ UNCHANGED <<cfgVars, toSend, readerVars, closing, close_event,
                   clientOut, remote, upOut, upToSend, pc, running, loc,
                   workerVars, dialVars, replyAt, negotiated,
                   closed_by>>

\* `if not self._proxy_transport.is_closing()`: whether connection_lost
\* closes the client transport.
ClosesProxyNot(isClosing) == FALSE
ClosesProxy(isClosing) == ~isClosing

\* RemoteConnection.connection_lost
RemoteConnectionLost ==
    /\ running = "none" /\ ready # <<>>
    /\ Head(ready).ev = "remote_connection_lost"
    /\ remote_transport' = "closed"
    /\ closing' = (closing \/ ClosesProxy(closing))
    /\ ready' = IF ClosesProxy(closing) THEN TransportClose(Tail(ready))
                ELSE Tail(ready)
    /\ UNCHANGED <<cfgVars, toSend, readerVars, close_event, clientOut,
                   remote, upOut, upToSend, pc, running, loc, workerVars,
                   dialVars, replyAt, negotiated>>
    /\ closed_by' = ClosedBy("remote")

-----------------------------------------------------------------------------
\* The serve_connection task.

\* An exception other than AuthenticationError leaves serve_connection:
\* the task ends with it and nothing else is done.
Exceptions == {"struct.error", "KeyError", "TypeError", "OSError"}

Crash(e) ==
    /\ pc' = e
    /\ running' = "none"

Suspend(who) ==
    /\ waiter' = who
    /\ running' = "none"

\* The loop resumes the task.
RunTask ==
    /\ running = "none" /\ ready # <<>> /\ Head(ready).ev = "task"
    /\ ready' = Tail(ready)
    /\ running' = "task"
    /\ UNCHANGED <<cfgVars, toSend, readerVars, closing, close_event,
                   clientOut, remoteVars, pc, loc, workerVars, dialVars,
                   replyAt, negotiated,
                   closed_by>>

\* authenticate, lines 130-133: VER and NMETHODS.
AuthenticateHeader ==
    /\ running = "task" /\ pc = "greeting"
    /\ IF ~CanRead(2)
       THEN /\ Suspend("task")
            /\ UNCHANGED <<buffer, pc, loc, closing, ready>>
       ELSE LET data == ReadData(2) IN
            /\ buffer' = Drop(buffer, Len(data))
            /\ UNCHANGED waiter
            /\ IF Len(data) # 2
               THEN Crash("struct.error") /\ UNCHANGED <<loc, closing, ready>>
               ELSE /\ loc' = [loc EXCEPT !.version = data[1],
                                          !.nmethods = data[2]]
                    /\ pc' = "methods"
                    /\ closing' = (closing \/ data[1] # VERSION)
                    /\ ready' = IF data[1] # VERSION THEN TransportClose(ready)
                                ELSE ready
                    /\ UNCHANGED running
    /\ UNCHANGED <<cfgVars, toSend, eof, close_event, clientOut, remoteVars,
                   workerVars, dialVars, replyAt, negotiated>>
    /\ closed_by' = ClosedBy("server")

\* BaseAuthentication.on_success / on_fail: the auth-result message.
AuthResult(status) == <<VERSION, status>>

\* authenticate, lines 134-141: METHODS, the common methods and the call of
\* the selected handler's negotiate up to its first read.
AuthenticateMethods ==
    /\ running = "task" /\ pc = "methods"
    /\ IF ~CanRead(loc.nmethods)
       THEN /\ Suspend("task")
            /\ UNCHANGED <<buffer, pc, loc, clientOut, negotiated>>
       ELSE LET data == ReadData(loc.nmethods)
                auth_methods == auth_handlers \cap Range(data) IN
            /\ buffer' = Drop(buffer, Len(data))
            /\ UNCHANGED waiter
            /\ IF Len(data) # loc.nmethods \/ auth_methods = {}
               THEN /\ Crash(IF Len(data) # loc.nmethods THEN "struct.error"
                             ELSE "KeyError")
                    /\ UNCHANGED <<loc, clientOut, negotiated>>
               ELSE \E m \in auth_methods :
                    /\ loc' = [loc EXCEPT !.method = m]
                    /\ negotiated' = negotiated + 1
                    /\ UNCHANGED running
                    /\ IF m = WithoutAuthMETHOD
                       THEN /\ clientOut' = TransportWrite(clientOut, closing,
                                                           AuthResult(SUCCESS))
                            /\ pc' = "request"
                       ELSE /\ pc' = "cred_header"
                            /\ UNCHANGED clientOut
    /\ UNCHANGED <<cfgVars, toSend, eof, closing, close_event, remoteVars,
                   ready, workerVars, dialVars, replyAt,
                   closed_by>>

\* get_credentials, line 62: VER and ULEN.
GetCredentialsHeader ==
    /\ running = "task" /\ pc = "cred_header"
    /\ IF ~CanRead(2)
       THEN /\ Suspend("task")
            /\ UNCHANGED <<buffer, pc, loc>>
       ELSE LET data == ReadData(2) IN
            /\ buffer' = Drop(buffer, Len(data))
            /\ UNCHANGED waiter
            /\ IF Len(data) # 2
               THEN Crash("struct.error") /\ UNCHANGED loc
               ELSE /\ loc' = [loc EXCEPT !.ulen = data[2]]
                    /\ pc' = "cred_uname"
                    /\ UNCHANGED running
    /\ UNCHANGED <<cfgVars, toSend, eof, closing, close_event, clientOut,
                   remoteVars, ready, workerVars, dialVars, replyAt,
                   negotiated,
                   closed_by>>

\* get_credentials, line 63: UNAME.
GetCredentialsUname ==
    /\ running = "task" /\ pc = "cred_uname"
    /\ LET fmt == FormatS(PyInt(loc.ulen)) IN
       IF ~CanRead(loc.ulen)
       THEN /\ Suspend("task")
            /\ UNCHANGED <<buffer, pc, loc>>
       ELSE LET data == ReadData(loc.ulen) IN
            /\ buffer' = Drop(buffer, Len(data))
            /\ UNCHANGED waiter
            /\ IF ~fmt.ok \/ Len(data) # fmt.size
               THEN Crash("struct.error") /\ UNCHANGED loc
               ELSE /\ loc' = [loc EXCEPT !.username = PyTuple(<<data>>)]
                    /\ pc' = "cred_plen"
                    /\ UNCHANGED running
    /\ UNCHANGED <<cfgVars, toSend, eof, closing, close_event, clientOut,
                   remoteVars, ready, workerVars, dialVars, replyAt,
                   negotiated,
                   closed_by>>

\* get_credentials, line 64: PLEN, kept as the tuple unpack returns.
GetCredentialsPlen ==
    /\ running = "task" /\ pc = "cred_plen"
    /\ IF ~CanRead(1)
       THEN /\ Suspend("task")
            /\ UNCHANGED <<buffer, pc, loc>>
       ELSE LET data == ReadData(1) IN
            /\ buffer' = Drop(buffer, Len(data))
            /\ UNCHANGED waiter
            /\ IF Len(data) # 1
               THEN Crash("struct.error") /\ UNCHANGED loc
               ELSE /\ loc' = [loc EXCEPT !.plen = PyTuple(data)]
                    /\ pc' = "cred_passwd"
                    /\ UNCHANGED running
    /\ UNCHANGED <<cfgVars, toSend, eof, closing, close_event, clientOut,
                   remoteVars, ready, workerVars, dialVars, replyAt,
                   negotiated,
                   closed_by>>

\* get_credentials, line 65, and the rest of UsernamePassword.negotiate
\* (lines 44-48) with serve_connection's handling of AuthenticationError
\* (lines 101-107).  read(plen) and the struct format both need an int.
GetCredentialsPasswd ==
    /\ running = "task" /\ pc = "cred_passwd"
    /\ LET fmt == FormatS(loc.plen) IN
       IF ~fmt.ok
       THEN /\ Crash("TypeError")
            /\ UNCHANGED <<buffer, waiter, loc, clientOut, closing, ready>>
       ELSE IF ~CanRead(fmt.size)
       THEN /\ Suspend("task")
            /\ UNCHANGED <<buffer, pc, loc, clientOut, closing, ready>>
       ELSE LET data == ReadData(fmt.size) IN
            /\ buffer' = Drop(buffer, Len(data))
            /\ UNCHANGED waiter
            /\ IF Len(data) # fmt.size
               THEN /\ Crash("struct.error")
                    /\ UNCHANGED <<loc, clientOut, closing, ready>>
               ELSE /\ loc' = [loc EXCEPT !.password = PyTuple(<<data>>)]
                    /\ IF backendOk
                       THEN /\ clientOut' = TransportWrite(clientOut, closing,
                                                           AuthResult(SUCCESS))
                            /\ pc' = "request"
                            /\ UNCHANGED <<running, closing, ready>>
                       ELSE /\ clientOut' = TransportWrite(clientOut, closing,
                                                           AuthResult(FAIL))
                            /\ closing' = TRUE
                            /\ ready' = TransportClose(ready)
                            /\ pc' = "done"
                            /\ running' = "none"
    /\ UNCHANGED <<cfgVars, toSend, eof, close_event, remoteVars,
                   workerVars, dialVars, replyAt, negotiated>>
    /\ closed_by' = ClosedBy("server")

\* serve_connection, line 110: the exchange loop becomes a task.
StartWorker(q) == Append(q, [ev |-> "worker"])

\* _handle_connection_by_type, lines 144-154: VER CMD RSV ATYP and the
\* lookup of the command's handler; without one, the reply, the close and
\* serve_connection's line 110.
HandleConnectionHeader ==
    /\ running = "task" /\ pc = "request"
    /\ IF ~CanRead(4)
       THEN /\ Suspend("task")
            /\ UNCHANGED <<buffer, pc, loc, clientOut, closing, ready, worker>>
       ELSE LET data == ReadData(4) IN
            /\ buffer' = Drop(buffer, Len(data))
            /\ UNCHANGED waiter
            /\ IF Len(data) # 4
               THEN /\ Crash("struct.error")
                    /\ UNCHANGED <<loc, clientOut, closing, ready, worker>>
               ELSE /\ loc' = [loc EXCEPT !.cmd = data[2], !.atyp = data[4]]
                    /\ IF data[2] # CONNECT
                       THEN /\ clientOut' =
                                 TransportWrite(clientOut, closing,
                                     <<VERSION, COMMAND_NOT_SUPPORTED>>)
                            /\ closing' = TRUE
                            /\ ready' = StartWorker(TransportClose(ready))
                            /\ worker' = "pending"
                            /\ pc' = "done"
                            /\ running' = "none"
                       ELSE /\ pc' = "address"
                            /\ UNCHANGED <<running, clientOut, closing, ready,
                                           worker>>
    /\ UNCHANGED <<cfgVars, toSend, eof, close_event, remoteVars, must_cancel,
                   logged, dialVars, replyAt, negotiated>>
    /\ closed_by' = ClosedBy("server")

\* _handle_connection_by_type, line 156: four address bytes, whatever ATYP.
HandleConnectionAddress ==
    /\ running = "task" /\ pc = "address"
    /\ IF ~CanRead(4)
       THEN /\ Suspend("task")
            /\ UNCHANGED <<buffer, pc, loc>>
       ELSE LET data == ReadData(4) IN
            /\ buffer' = Drop(buffer, Len(data))
            /\ UNCHANGED waiter
            /\ IF Len(data) # 4
               THEN Crash("OSError") /\ UNCHANGED loc
               ELSE /\ loc' = [loc EXCEPT !.remote_addr = inet_ntoa(data)]
                    /\ pc' = "port"
                    /\ UNCHANGED running
    /\ UNCHANGED <<cfgVars, toSend, eof, closing, close_event, clientOut,
                   remoteVars, ready, workerVars, dialVars, replyAt,
                   negotiated,
                   closed_by>>

\* _handle_connection_by_type, lines 157-158, and _connect up to its await
\* of create_connection (line 161).
HandleConnectionPort ==
    /\ running = "task" /\ pc = "port"
    /\ IF ~CanRead(2)
       THEN /\ Suspend("task")
            /\ UNCHANGED <<buffer, pc, loc, dial, dials>>
       ELSE LET data == ReadData(2) IN
            /\ buffer' = Drop(buffer, Len(data))
            /\ UNCHANGED waiter
            /\ IF Len(data) # 2
               THEN Crash("struct.error") /\ UNCHANGED <<loc, dial, dials>>
               ELSE /\ loc' = [loc EXCEPT !.remote_port = UnpackH(data)]
                    /\ dial' = "pending"
                    /\ dials' = dials + 1
                    /\ pc' = "dial"
                    /\ running' = "none"
    /\ UNCHANGED <<cfgVars, toSend, eof, closing, close_event, clientOut,
                   remoteVars, ready, workerVars, bound, replyAt, negotiated,
                   closed_by>>

\* The reply _connect writes (lines 167-170).
ConnectReplyEchoesDestination(atyp, sock, dst_addr, dst_port) ==
    <<5, 0, 0, atyp>> \o inet_aton(dst_addr) \o PackH(dst_port)
ConnectReplyHeaderOnly(atyp, sock, dst_addr, dst_port) == <<5, 0, 0, atyp>>
ConnectReply(atyp, sock, dst_addr, dst_port) ==
    <<5, 0, 0, atyp>> \o inet_aton(sock.addr) \o PackH(sock.port)

\* _connect after create_connection (lines 165-170) and serve_connection's
\* line 110; a failed connect raises out of the task.
Connect ==
    /\ running = "task" /\ pc = "dial"
    /\ IF dial = "failed"
       THEN /\ Crash("OSError")
            /\ UNCHANGED <<remote, clientOut, replyAt, ready, worker>>
       ELSE /\ remote' = "transport"
            /\ clientOut' = TransportWrite(clientOut, closing,
                  ConnectReply(loc.atyp, bound, loc.remote_addr,
                               loc.remote_port))
            /\ replyAt' = IF closing THEN 0 ELSE Len(clientOut) + 1
            /\ ready' = StartWorker(ready)
            /\ worker' = "pending"
            /\ pc' = "done"
            /\ running' = "none"
    /\ UNCHANGED <<cfgVars, toSend, readerVars, closing, close_event,
                   remote_transport, upOut, upToSend, loc, must_cancel,
                   logged, dialVars, negotiated,
                   closed_by>>

-----------------------------------------------------------------------------
\* The exchange-loop worker.

\* The loop resumes the worker; a cancelled worker gets CancelledError at
\* its await (or before its first statement) and ends.
RunWorker ==
    /\ running = "none" /\ ready # <<>> /\ Head(ready).ev = "worker"
    /\ ready' = Tail(ready)
    /\ IF must_cancel
       THEN worker' = "cancelled" /\ UNCHANGED running
       ELSE running' = "worker" /\ UNCHANGED worker
    /\ UNCHANGED <<cfgVars, toSend, readerVars, closing, close_event,
                   clientOut, remoteVars, pc, loc, must_cancel, logged,
                   dialVars, replyAt, negotiated,
                   closed_by>>

\* _start_exchange_loop: the loop test and one iteration (lines 177-185).
\* An exception of the iteration (the write on a closed transport, or on
\* the None that _remote holds without a connection) is caught and logged,
\* and the loop goes on to its next test.
ExchangeLoop ==
    /\ running = "worker"
    /\ IF close_event
       THEN /\ worker' = "done"
            /\ running' = "none"
            /\ UNCHANGED <<buffer, waiter, close_event, upOut, logged>>
       ELSE IF ~CanRead(ReadChunk)
       THEN /\ Suspend("worker")
            /\ UNCHANGED <<buffer, worker, close_event, upOut, logged>>
       ELSE LET data == ReadData(ReadChunk) IN
            /\ buffer' = Drop(buffer, Len(data))
            /\ close_event' = (data = <<>>)
            /\ UNCHANGED <<waiter, worker, running>>
            /\ IF data = <<>>
               THEN UNCHANGED <<upOut, logged>>
               ELSE IF remote = "None"
               THEN logged' = logged + 1 /\ UNCHANGED upOut
               ELSE \E raises \in WriteRaises(remote_transport = "closed") :
                    IF raises
                    THEN logged' = logged + 1 /\ UNCHANGED upOut
                    ELSE /\ upOut' = TransportWrite(upOut,
                                         remote_transport # "open", data)
                         /\ UNCHANGED logged
    /\ UNCHANGED <<cfgVars, toSend, eof, closing, clientOut, remote,
                   remote_transport, upToSend, pc, ready, loc, must_cancel,
                   dialVars, replyAt, negotiated,
                   closed_by>>

-----------------------------------------------------------------------------

Next ==
    \/ SelectClient
    \/ SelectRemote
    \/ DataReceived
    \/ EofReceived
    \/ ClientLost
    \/ Socks5ConnectionLost
    \/ DialDone
    \/ RemoteDataReceived
    \/ RemoteEof
    \/ RemoteConnectionLost
    \/ RunTask
    \/ AuthenticateHeader
    \/ AuthenticateMethods
    \/ GetCredentialsHeader
    \/ GetCredentialsUname
    \/ GetCredentialsPlen
    \/ GetCredentialsPasswd
    \/ HandleConnectionHeader
    \/ HandleConnectionAddress
    \/ HandleConnectionPort
    \/ Connect
    \/ RunWorker
    \/ ExchangeLoop

Spec == Init /\ [][Next]_vars

\* The steps the event loop itself takes: it runs the ready callbacks and
\* the coroutine that holds it.  The selector's events are the peers' doing.
LoopStep ==
    \/ DataReceived
    \/ EofReceived
    \/ ClientLost
    \/ Socks5ConnectionLost
    \/ DialDone
    \/ RemoteDataReceived
    \/ RemoteEof
    \/ RemoteConnectionLost
    \/ RunTask
    \/ AuthenticateHeader
    \/ AuthenticateMethods
    \/ GetCredentialsHeader
    \/ GetCredentialsUname
    \/ GetCredentialsPlen
    \/ GetCredentialsPasswd
    \/ HandleConnectionHeader
    \/ HandleConnectionAddress
    \/ HandleConnectionPort
    \/ Connect
    \/ RunWorker
    \/ ExchangeLoop

\* The loop never stops running what is ready; the peers owe nothing.
FairSpec == Spec /\ WF_vars(LoopStep)

-----------------------------------------------------------------------------
\* Vocabulary of the properties.

\* The loop has nothing to run: only a peer can make the session move.
Quiescent == running = "none" /\ ready = <<>>

Crashed == pc \in Exceptions

\* The methods the greeting offers.
Offered == Range(SubSeq(script.greeting, 3, Len(script.greeting)))

LastTwo(s) == IF Len(s) < 2 THEN <<>> ELSE SubSeq(s, Len(s) - 1, Len(s))

\* A reply with this REP follows the auth result in what the client got.
RepliedWith(rep) ==
    Len(clientOut) >= 4 /\ SubSeq(clientOut, 3, 4) = <<VERSION, rep>>

\* The bytes relayed to the client: what follows the 10-byte CONNECT reply.
RelayedToClient == Drop(clientOut, replyAt + 9)

WorkerStopped == worker \in {"done", "cancelled"}

\* The client sends the credential message exactly when Username/Password
\* is the method in use, so its request and payload are where it means them.
ClientFollowsMethod ==
    (script.creds # <<>>) <=> (loc.method = UsernamePasswordMETHOD)

-----------------------------------------------------------------------------
\* Properties.

\* C1: once the handshake has selected a method on a version-5 greeting,
\* the client has been sent the selection message VER=5, METHOD=selected.
C1_SelectionMessageWritten ==
    (loc.version = VERSION /\ loc.method # -1)
        => (Len(clientOut) >= 2
            /\ SubSeq(clientOut, 1, 2) = <<VERSION, loc.method>>)

\* C2: a version-5 greeting with no method in common with the server ends
\* with the client transport closed, no exchange worker and no success
\* message sent.
C2_NoCommonMethodCloses ==
    (loc.version = VERSION /\ pc = "KeyError" /\ Quiescent)
        => (closing /\ worker = "none" /\ clientOut = <<>>)

\* C3: once a request with a command other than CONNECT is decoded, the
\* client has been sent REP=7, its transport is closed and no outbound
\* connection was ever attempted.
C3_UnsupportedCommandReplied ==
    (loc.cmd # -1 /\ loc.cmd # CONNECT)
        => (LastTwo(clientOut) = <<VERSION, COMMAND_NOT_SUPPORTED>>
            /\ closing /\ dials = 0)

\* C4: when the outbound connect has failed and the loop has run all it
\* had, the client has the general-failure reply, its transport is closed
\* and the connect was attempted once.
C4_DialFailureReplied ==
    (dial = "failed" /\ Quiescent)
        => (RepliedWith(GENERAL_SOCKS_SERVER_FAILURE) /\ closing /\ dials = 1)

\* C5: an outbound connect that is pending leads to the connect having
\* ended or to the general-failure reply with the client transport closed.
C5_DialTimesOut ==
    (dial = "pending")
        ~> (dial # "pending"
            \/ (RepliedWith(GENERAL_SOCKS_SERVER_FAILURE) /\ closing))

\* C6: in the success reply the client got, BND.ADDR and BND.PORT are the
\* packed sockname of the outbound connection.
C6_ReplyCarriesSockname ==
    replyAt > 0
        => SubSeq(clientOut, replyAt + 4, replyAt + 9)
               = inet_aton(bound.addr) \o PackH(bound.port)

\* C6 witness: a success reply reached the client in a session whose
\* outbound sockname differs from the requested destination.
C6_Witness ==
    /\ replyAt > 0
    /\ Len(clientOut) >= replyAt + 9
    /\ bound.addr # loc.remote_addr
    /\ bound.port # loc.remote_port

\* C7: in a session whose client follows the negotiated method, what the
\* upstream was sent is a prefix of the payload the client sent after its
\* request, and what the client was sent after the reply is a prefix of
\* what the upstream sent.
C7_RelayTransparent ==
    ClientFollowsMethod
        => (/\ IsPrefix(upOut, script.payload)
            /\ (replyAt > 0 => IsPrefix(RelayedToClient, UpstreamBytes)))

\* C8: once the outbound connection is closed or lost, the client
\* transport gets closed and the exchange worker stops.
C8_UpstreamLossClosesClient ==
    (remote_transport \in {"closing", "closed"}) ~> (closing /\ WorkerStopped)

\* C8 witness: the upstream ended the connection during relay, and that
\* closed the client transport and cancelled the worker blocked in read.
C8_Witness ==
    /\ remote_transport = "closed"
    /\ closed_by = "remote"
    /\ closing
    /\ worker = "cancelled"
    /\ upOut # <<>>

\* C9: when Username/Password is selected, the credential message has been
\* read and the verifier rejects it, the client has been sent the failure
\* auth-result, its transport is closed, and no request is decoded, no
\* connect attempted and no worker started.
C9_RejectedCredentialsFail ==
    (/\ loc.method = UsernamePasswordMETHOD
     /\ script.creds # <<>>
     /\ ~backendOk
     /\ loc.plen # PyTuple(<<>>)
     /\ pc # "cred_passwd")
        => (/\ LastTwo(clientOut) = AuthResult(FAIL)
            /\ closing
            /\ loc.cmd = -1 /\ dials = 0 /\ worker = "none")

\* C10: after a greeting whose version is not 5, the client transport is
\* closed, nothing was sent to the client, no auth handler was called, no
\* request decoded, no connect attempted and no worker started.
C10_VersionMismatchDrops ==
    (loc.version # -1 /\ loc.version # VERSION)
        => (/\ closing
            /\ clientOut = <<>>
            /\ negotiated = 0
            /\ loc.cmd = -1 /\ dials = 0 /\ worker = "none")

\* The UNAME and PASSWD fields of the credential message c
\* (VER ULEN UNAME PLEN PASSWD).
Uname(c) == SubSeq(c, 3, 2 + c[2])
Passwd(c) == SubSeq(c, 4 + c[2], 3 + c[2] + c[3 + c[2]])

\* C11: when Username/Password is selected in a version 5 session and the
\* client sends a
\* well-formed credential message (ULEN and PLEN at least 1), then once
\* get_credentials has read PLEN and gone on, the user name and the password
\* it decoded are exactly the UNAME and PASSWD bytes the client sent.
C11_CredentialsDecoded ==
    (/\ loc.version = VERSION
     /\ loc.method = UsernamePasswordMETHOD
     /\ script.creds # <<>>
     /\ script.creds[2] >= 1
     /\ loc.plen # NoLoc.plen
     /\ pc # "cred_passwd")
    => /\ loc.username.v = <<Uname(script.creds)>>
       /\ loc.password.v = <<Passwd(script.creds)>>

\* C12: when the exchange loop has ended on the client's end-of-stream and
\* the event loop has run all that was ready, both the outbound transport
\* and the client transport have been closed.
C12_ClientEofClosesBoth ==
    (Quiescent /\ eof /\ worker = "done" /\ remote = "transport")
    => (closing /\ remote_transport # "open")

\* C13: the outbound transport exists exactly when the command was CONNECT
\* and the connect succeeded, and the exchange-loop worker has been started
\* only in a session whose outbound transport exists (stated for version 5
\* sessions).
C13_WorkerOnlyWithUpstream ==
    /\ (remote_transport # "none") <=> (loc.cmd = CONNECT /\ dial = "ok")
    /\ (worker # "none" /\ loc.version = VERSION) => (remote_transport # "none")

\* What the client transport accepted up to the end of the CONNECT reply
\* (all of it when no reply was accepted).
UpToReply ==
    IF replyAt = 0 THEN clientOut
    ELSE SubSeq(clientOut, 1, Min(Len(clientOut), replyAt + 9))

ShortRead == pc = "struct.error" \/ (pc = "OSError" /\ dial = "none")

\* C15: in a version 5 session, when a short read during the greeting, the
\* credential message or the request has ended serve_connection and the
\* event loop has run all that was ready, the client transport is closed,
\* the outbound transport, if any, is closed, and no worker was started.
C15_ErrorsClose ==
    (Quiescent /\ ShortRead /\ script.greeting[1] = VERSION)
    => (closing /\ remote_transport # "open" /\ worker = "none")

\* C16: once the exchange loop has caught a failure of an iteration, its
\* next step ends it: it does not test and read again.
C16_LoopStopsOnFailure ==
    [][(running = "worker" /\ logged > 0) => worker' \in {"done", "cancelled"}]_vars

C18_LowestMethodSelected ==
    (loc.method # NoLoc.method /\ loc.version = VERSION) =>
        \A m \in auth_handlers \cap Offered : loc.method <= m

\* C19: when _handle_connection_by_type has decoded a CONNECT request of a
\* version 5 client that sends its messages in order, it has consumed the
\* whole request and nothing more: the bytes still buffered or in flight
\* are exactly the client's payload.
C19_RequestConsumed ==
    (/\ pc = "dial"
     /\ dial = "pending"
     /\ loc.version = VERSION
     /\ ClientFollowsMethod
     /\ ~eof)
    => buffer \o toSend = script.payload

\* C20: when the client connection of a session with an IPv4 request was
\* lost, Socks5.connection_lost has run and the event loop has run all that
\* was ready, no outbound transport is open and no worker is left pending.
C20_ClientLossClosesUpstream ==
    (Quiescent /\ closed_by = "peer" /\ ClientClosed /\ script.request[4] = IPV4)
    => (remote_transport # "open" /\ worker # "pending")

====
